---------------------------- MODULE Spec2Model ----------------------------
(***************************************************************************)
(* NextBeat note-event post-processing and MIDI serialization.            *)
(*                                                                         *)
(* Source: src/api/post_processing.py, src/api/magenta_continuator.py,    *)
(* src/api/config.py.                                                      *)
(*                                                                         *)
(* Numbers.  Beat times and durations are Python floats; here they are    *)
(* integers counting thousandths of a beat (0.25 beat = 250), and the     *)
(* arithmetic on them is exact.  Seconds, which only exist between the    *)
(* sequence assembler and the MIDI writer, are integers counting          *)
(* 1/(1000 * tempo) of a second, so that beats * 60.0 / tempo is exact    *)
(* for every tempo.  Velocities, pitches and ticks are integers as in the *)
(* source.  The binary rounding error of the float operations is not      *)
(* modelled, except for int(velocity * 1.15), where it changes the        *)
(* integer result for round velocities (see TruncMul115).                 *)
(***************************************************************************)
EXTENDS Integers, Sequences, FiniteSets, TLC

VARIABLES
    notes,        \* request: the primer notes handed to post_process
    style,        \* request: the style prompt, a sequence of characters
    instrument,   \* request: "drums" or "piano"
    tempo,        \* request: tempo in BPM
    pc,           \* how far the request has come
    category,     \* post_process: the detected style category
    quantized,    \* post_process: after quantize_notes
    styled,       \* post_process: after the style transform
    humanized,    \* post_process: after humanize, before the sort
    processed,    \* post_process: the returned list
    seq,          \* the assembled FallbackSequence
    track,        \* the MIDI track written by _write_midi_with_mido
    stage,        \* direct stage call: the function called
    arg,          \* direct stage call: its parameter (grid, ratio)
    out,          \* direct stage call: the list it returned
    aliased,      \* whether the returned list is the caller's list object itself
    err,          \* the exception the call raised, "" when it returned
    rng,          \* the random module's generator: draws taken since its seeding
    model         \* the Magenta model of the instrument: "none" when not loaded

vars ==
    <<notes, style, instrument, tempo, pc, category, quantized, styled,
      humanized, processed, seq, track, stage, arg, out, aliased, err, rng, model>>

---------------------------------------------------------------------------
(* Bounds of the model *)

\* longest note list a request or a direct call carries
MaxNotes == 2

\* most draws other requests take from the shared generator before a request
MaxOtherDraws == 3

\* most words in a style text given to the classifier
MaxWords == 2

---------------------------------------------------------------------------
(* config.py: settings, in thousandths of a beat where they are beats *)

quantize_grid == 250

swing_ratio == 660

humanize_timing == 15

humanize_velocity == 8

velocity_min == 40

velocity_max == 120

default_tempo == 120

---------------------------------------------------------------------------
(* Arithmetic helpers *)

Abs(x) == IF x < 0 THEN -x ELSE x

Min(a, b) == IF a < b THEN a ELSE b

Max(a, b) == IF a > b THEN a ELSE b

\* Python int(n / d) for d > 0: truncation toward zero
TruncDiv(n, d) == IF n >= 0 THEN n \div d ELSE -((-n) \div d)

\* Python round(n / d) for d > 0: to the nearest integer, ties to the even one
RoundHalfEven(n, d) ==
    LET q == n \div d
        r == n % d
    IN  IF 2 * r < d THEN q
        ELSE IF 2 * r > d THEN q + 1
        ELSE IF q % 2 = 0 THEN q ELSE q + 1

\* Velocities v for which the double nearest to 1.15 (which lies below 1.15)
\* makes v * 1.15 fall just short of the integer v * 115 / 100.
Float115Short == {100, 180, 200, 220}

\* int(v * 1.15) for v >= 0, as the float product truncates
TruncMul115(v) ==
    IF v \in Float115Short THEN (v * 115) \div 100 - 1 ELSE TruncDiv(v * 115, 100)

\* int(v * 0.95), int(v * 1.2), int(v * 0.85): the float product truncates to
\* the exact quotient for every velocity 0..255
TruncMulPct(v, pct) == TruncDiv(v * pct, 100)

SeqMax(s, default) ==
    IF Len(s) = 0 THEN default
    ELSE CHOOSE m \in {s[i] : i \in 1..Len(s)} : \A i \in 1..Len(s) : s[i] <= m

---------------------------------------------------------------------------
(* post_processing.py: quantize_notes *)

\* fault variant of QuantizeNote: the time is cut down to the grid, not rounded
QuantizeNoteFloor(n, grid) ==
    [n EXCEPT !.time = (n.time \div grid) * grid,
              !.duration = IF n.hasDuration
                           THEN Max(grid, RoundHalfEven(n.duration, grid) * grid)
                           ELSE n.duration]

QuantizeNote(n, grid) ==
    [n EXCEPT !.time = RoundHalfEven(n.time, grid) * grid,
              !.duration = IF n.hasDuration
                           THEN Max(grid, RoundHalfEven(n.duration, grid) * grid)
                           ELSE n.duration]

quantize_notes(ns, grid) == [i \in 1..Len(ns) |-> QuantizeNote(ns[i], grid)]

---------------------------------------------------------------------------
(* post_processing.py: apply_swing *)

\* fault variant of SwingNote: the last sixteenth of a beat is not moved
SwingNoteEighthsOnly(n, ratio) ==
    LET beat_pos == n.time % 1000
        beat_floor == n.time - beat_pos
    IN  IF Abs(beat_pos - 500) < 10
        THEN [n EXCEPT !.time = beat_floor + ratio]
        ELSE n

SwingNote(n, ratio) ==
    LET beat_pos == n.time % 1000
        beat_floor == n.time - beat_pos
    IN  IF Abs(beat_pos - 500) < 10
        THEN [n EXCEPT !.time = beat_floor + ratio]
        ELSE IF Abs(beat_pos - 750) < 10
        THEN [n EXCEPT !.time = beat_floor + 500 + (ratio \div 2)]
        ELSE n

\* fault variant of apply_swing: only the exact ratio 0.5 is taken as straight
apply_swing_exact(ns, ratio) ==
    IF ratio = 500 THEN ns
    ELSE [i \in 1..Len(ns) |-> SwingNote(ns[i], ratio)]

apply_swing(ns, ratio) ==
    IF Abs(ratio - 500) < 10 THEN ns
    ELSE [i \in 1..Len(ns) |-> SwingNote(ns[i], ratio)]

\* "return notes": for a straight ratio the caller gets back the list object
\* it passed in; every other path appends deep copies to a list of its own
SwingReturnsInput(ratio) == Abs(ratio - 500) < 10

---------------------------------------------------------------------------
(* post_processing.py: apply_rock_emphasis *)

\* fault variant of RockNote: the boosted velocity is not held at velocity_max
RockNoteUnclamped(n) ==
    LET beat_pos == n.time % 4000
    IN  IF Abs(beat_pos) < 10 \/ Abs(beat_pos - 2000) < 10
        THEN [n EXCEPT !.velocity = TruncMul115(n.velocity)]
        ELSE IF Abs(beat_pos - 1000) < 10 \/ Abs(beat_pos - 3000) < 10
        THEN [n EXCEPT !.velocity = Max(velocity_min, TruncMulPct(n.velocity, 95))]
        ELSE n

RockNote(n) ==
    LET beat_pos == n.time % 4000
    IN  IF Abs(beat_pos) < 10 \/ Abs(beat_pos - 2000) < 10
        THEN [n EXCEPT !.velocity = Min(velocity_max, TruncMul115(n.velocity))]
        ELSE IF Abs(beat_pos - 1000) < 10 \/ Abs(beat_pos - 3000) < 10
        THEN [n EXCEPT !.velocity = Max(velocity_min, TruncMulPct(n.velocity, 95))]
        ELSE n

apply_rock_emphasis(ns) == [i \in 1..Len(ns) |-> RockNote(ns[i])]

---------------------------------------------------------------------------
(* post_processing.py: apply_reggae_offbeat *)

ReggaeNote(n) ==
    LET beat_pos == n.time % 1000
    IN  IF Abs(beat_pos - 500) < 100
        THEN [n EXCEPT !.velocity = Min(velocity_max, TruncMulPct(n.velocity, 120))]
        ELSE IF Abs(beat_pos) < 100
        THEN [n EXCEPT !.velocity = Max(velocity_min, TruncMulPct(n.velocity, 85))]
        ELSE n

apply_reggae_offbeat(ns) == [i \in 1..Len(ns) |-> ReggaeNote(ns[i])]

---------------------------------------------------------------------------
(* post_processing.py: add_funk_ghost_notes *)

RECURSIVE AscendingSeq(_)
\* the elements of a finite set of integers, in ascending order
AscendingSeq(S) ==
    IF S = {} THEN <<>>
    ELSE LET m == CHOOSE x \in S : \A y \in S : x <= y
         IN  <<m>> \o AscendingSeq(S \ {m})

\* fault variant of GhostSlots: slots with a snare hit are not skipped
GhostSlotsOverSnare(ns) ==
    LET max_time == SeqMax([i \in 1..Len(ns) |-> ns[i].time], 0)
        bars == TruncDiv(max_time, 4000) + 1
    IN  {t \in {bar * 4000 + sixteenth * 250 : bar \in 0..(bars - 1), sixteenth \in 0..15} :
            /\ t <= max_time
            /\ ((t % 4000) \div 250) % 4 \in {1, 3}}

\* fault variant of GhostSlots: the loop leaves one slot too late
GhostSlotsLateBreak(ns) ==
    LET snare_times == {ns[i].time : i \in {j \in 1..Len(ns) : ns[j].drum = "snare"}}
        max_time == SeqMax([i \in 1..Len(ns) |-> ns[i].time], 0)
        bars == TruncDiv(max_time, 4000) + 1
    IN  {t \in {bar * 4000 + sixteenth * 250 : bar \in 0..(bars - 1), sixteenth \in 0..15} :
            /\ t - 250 <= max_time
            /\ \A st \in snare_times : ~(Abs(t - st) < 10)
            /\ ((t % 4000) \div 250) % 4 \in {1, 3}}

\* the sixteenth-note slots of the two loops at which random.random() is drawn:
\* not beyond max_time, no snare hit within 0.01 beat, odd sixteenth of its beat
GhostSlots(ns) ==
    LET snare_times == {ns[i].time : i \in {j \in 1..Len(ns) : ns[j].drum = "snare"}}
        max_time == SeqMax([i \in 1..Len(ns) |-> ns[i].time], 0)
        bars == TruncDiv(max_time, 4000) + 1
    IN  {t \in {bar * 4000 + sixteenth * 250 : bar \in 0..(bars - 1), sixteenth \in 0..15} :
            /\ t <= max_time
            /\ \A st \in snare_times : ~(Abs(t - st) < 10)
            /\ ((t % 4000) \div 250) % 4 \in {1, 3}}

\* The outcomes of the draws at one slot: 0 when random.random() >= 0.4 (no
\* ghost), else the velocity random.randint(35, 55) returns.
GhostChoices == {0, 35, 55}

\* draws: one GhostChoices value per slot of GhostSlots(ns).  The model tags
\* every note with an id (not a key of the source's dicts) to tell notes apart.
add_funk_ghost_notes(ns, draws) ==
    LET order == AscendingSeq({t \in GhostSlots(ns) : draws[t] # 0})
        top == SeqMax([i \in 1..Len(ns) |-> ns[i].id], 0)
        new_ghosts == [k \in 1..Len(order) |->
                         [id |-> top + k, drum |-> "snare", pitch |-> 38,
                          time |-> order[k], duration |-> 0, hasDuration |-> FALSE,
                          velocity |-> draws[order[k]]]]
    IN  ns \o new_ghosts

---------------------------------------------------------------------------
(* post_processing.py: humanize *)

\* values random.gauss(0, timing_amount / 2) may return (thousandths of a beat)
GaussSamples == {-30, 30}

\* values random.randint(-velocity_amount, velocity_amount) may return
RandintSamples == {-humanize_velocity, humanize_velocity}

HumanizeDraws == [gauss : GaussSamples, randint : RandintSamples]

\* fault variant of HumanizeNote: the velocity is only held at velocity_max
HumanizeNoteNoVelocityMin(n, d, timing_amount) ==
    LET time_offset == Max(-timing_amount, Min(timing_amount, d.gauss))
    IN  [n EXCEPT !.time = Max(0, n.time + time_offset),
                  !.velocity = Min(velocity_max, n.velocity + d.randint)]

\* fault variant of HumanizeNote: the time is not floored at 0
HumanizeNoteNoTimeFloor(n, d, timing_amount) ==
    LET time_offset == Max(-timing_amount, Min(timing_amount, d.gauss))
    IN  [n EXCEPT !.time = n.time + time_offset,
                  !.velocity = Max(velocity_min, Min(velocity_max, n.velocity + d.randint))]

HumanizeNote(n, d, timing_amount) ==
    LET time_offset == Max(-timing_amount, Min(timing_amount, d.gauss))
    IN  [n EXCEPT !.time = Max(0, n.time + time_offset),
                  !.velocity = Max(velocity_min, Min(velocity_max, n.velocity + d.randint))]

\* draws: one record of HumanizeDraws per note
humanize(ns, draws, timing_amount) ==
    [i \in 1..Len(ns) |-> HumanizeNote(ns[i], draws[i], timing_amount)]

---------------------------------------------------------------------------
(* post_processing.py: the style classifier *)

SWING_STYLES ==
    { <<"j", "a", "z", "z">>,
      <<"s", "w", "i", "n", "g">>,
      <<"b", "l", "u", "e", "s">>,
      <<"s", "h", "u", "f", "f", "l", "e">>,
      <<"b", "e", "b", "o", "p">>,
      <<"d", "i", "x", "i", "e", "l", "a", "n", "d">>,
      <<"r", "a", "g", "t", "i", "m", "e">>,
      <<"b", "i", "g", " ", "b", "a", "n", "d">> }

ROCK_STYLES ==
    { <<"r", "o", "c", "k">>,
      <<"m", "e", "t", "a", "l">>,
      <<"p", "u", "n", "k">>,
      <<"g", "r", "u", "n", "g", "e">>,
      <<"h", "a", "r", "d", " ", "r", "o", "c", "k">>,
      <<"c", "l", "a", "s", "s", "i", "c", " ", "r", "o", "c", "k">>,
      <<"a", "l", "t", "e", "r", "n", "a", "t", "i", "v", "e">> }

FUNK_STYLES ==
    { <<"f", "u", "n", "k">>,
      <<"s", "o", "u", "l">>,
      <<"m", "o", "t", "o", "w", "n">>,
      <<"r", "&", "b">>,
      <<"n", "e", "o", "-", "s", "o", "u", "l">>,
      <<"d", "i", "s", "c", "o">> }

REGGAE_STYLES ==
    { <<"r", "e", "g", "g", "a", "e">>,
      <<"s", "k", "a">>,
      <<"d", "u", "b">>,
      <<"d", "a", "n", "c", "e", "h", "a", "l", "l">> }

UpperChars ==
    {"A", "B", "C", "D", "E", "F", "G", "H", "I", "J", "K", "L", "M", "N", "O", "P", "Q", "R", "S", "T", "U", "V", "W", "X", "Y", "Z"}

LowerOf ==
    [c \in UpperChars |->
        CASE c = "A" -> "a"
          [] c = "B" -> "b"
          [] c = "C" -> "c"
          [] c = "D" -> "d"
          [] c = "E" -> "e"
          [] c = "F" -> "f"
          [] c = "G" -> "g"
          [] c = "H" -> "h"
          [] c = "I" -> "i"
          [] c = "J" -> "j"
          [] c = "K" -> "k"
          [] c = "L" -> "l"
          [] c = "M" -> "m"
          [] c = "N" -> "n"
          [] c = "O" -> "o"
          [] c = "P" -> "p"
          [] c = "Q" -> "q"
          [] c = "R" -> "r"
          [] c = "S" -> "s"
          [] c = "T" -> "t"
          [] c = "U" -> "u"
          [] c = "V" -> "v"
          [] c = "W" -> "w"
          [] c = "X" -> "x"
          [] c = "Y" -> "y"
          [] c = "Z" -> "z"]

\* str.lower()
Lower(text) ==
    [i \in 1..Len(text) |-> IF text[i] \in UpperChars THEN LowerOf[text[i]] ELSE text[i]]

\* keyword in text
Contains(text, keyword) ==
    \E i \in 0..(Len(text) - Len(keyword)) :
        \A j \in 1..Len(keyword) : text[i + j] = keyword[j]

\* fault variant of DetectStyleCategory: the rock keywords are tried before funk
DetectStyleCategoryRockFirst(style_prompt) ==
    LET prompt_lower == Lower(style_prompt)
    IN  IF \E keyword \in SWING_STYLES : Contains(prompt_lower, keyword) THEN "swing"
        ELSE IF \E keyword \in ROCK_STYLES : Contains(prompt_lower, keyword) THEN "rock"
        ELSE IF \E keyword \in FUNK_STYLES : Contains(prompt_lower, keyword) THEN "funk"
        ELSE IF \E keyword \in REGGAE_STYLES : Contains(prompt_lower, keyword) THEN "reggae"
        ELSE "neutral"

DetectStyleCategory(style_prompt) ==
    LET prompt_lower == Lower(style_prompt)
    IN  IF \E keyword \in SWING_STYLES : Contains(prompt_lower, keyword) THEN "swing"
        ELSE IF \E keyword \in FUNK_STYLES : Contains(prompt_lower, keyword) THEN "funk"
        ELSE IF \E keyword \in ROCK_STYLES : Contains(prompt_lower, keyword) THEN "rock"
        ELSE IF \E keyword \in REGGAE_STYLES : Contains(prompt_lower, keyword) THEN "reggae"
        ELSE "neutral"

---------------------------------------------------------------------------
(* post_processing.py: post_process *)

\* fault variant of InsertByTime: a note goes before the notes of equal time
InsertByTimeUnstable(sorted, n) ==
    LET k == Cardinality({i \in 1..Len(sorted) : sorted[i].time < n.time})
    IN  SubSeq(sorted, 1, k) \o <<n>> \o SubSeq(sorted, k + 1, Len(sorted))

\* list.sort(key=time) is stable: a note goes after the notes already placed
\* whose time is smaller or equal
InsertByTime(sorted, n) ==
    LET k == Cardinality({i \in 1..Len(sorted) : sorted[i].time <= n.time})
    IN  SubSeq(sorted, 1, k) \o <<n>> \o SubSeq(sorted, k + 1, Len(sorted))

RECURSIVE SortPrefixByTime(_, _)
SortPrefixByTime(s, k) ==
    IF k = 0 THEN <<>> ELSE InsertByTime(SortPrefixByTime(s, k - 1), s[k])

SortByTime(s) == SortPrefixByTime(s, Len(s))

\* Step 2 of post_process up to, not including, the funk ghost notes
StyleTransform(qs, cat) ==
    IF cat = "swing" THEN apply_swing(qs, swing_ratio)
    ELSE IF cat = "rock" THEN apply_rock_emphasis(qs)
    ELSE IF cat = "funk" THEN apply_rock_emphasis(qs)
    ELSE IF cat = "reggae" THEN apply_reggae_offbeat(qs)
    ELSE qs

\* fault variant of AddsGhosts: the instrument is not looked at
AddsGhostsAnyInstrument(cat, instr) == cat = "funk"

\* whether post_process calls add_funk_ghost_notes
AddsGhosts(cat, instr) == cat = "funk" /\ instr = "drums"

\* post_process from Step 2's ghost notes on: base is the list after the
\* category's transform.  ghost_draws and humanize_draws are what the random
\* module returns.  The result holds every local the function passes through.
PostProcessFrom(q, cat, base, instr, ghost_draws, humanize_draws) ==
    LET st == IF AddsGhosts(cat, instr) THEN add_funk_ghost_notes(base, ghost_draws) ELSE base
        h == humanize(st, humanize_draws, humanize_timing)
    IN  [category |-> cat, quantized |-> q, styled |-> st, humanized |-> h,
         processed |-> SortByTime(h)]

\* post_process: the set of the results it may return, one for every outcome
\* of the random draws.  An empty list is returned as it is, before any stage.
post_process(ns, style_prompt, instr) ==
    IF ns = <<>>
    THEN {[category |-> "none", quantized |-> <<>>, styled |-> <<>>,
           humanized |-> <<>>, processed |-> ns]}
    ELSE LET q == quantize_notes(ns, quantize_grid)
             cat == DetectStyleCategory(style_prompt)
             base == StyleTransform(q, cat)
             slots == IF AddsGhosts(cat, instr) THEN GhostSlots(base) ELSE {}
         IN  UNION {{PostProcessFrom(q, cat, base, instr, ghost_draws, humanize_draws) :
                        humanize_draws \in
                            [1..(Len(base) + Cardinality({t \in slots : ghost_draws[t] # 0}))
                                -> HumanizeDraws]} :
                    ghost_draws \in [slots -> GhostChoices]}

\* What the random module hands out at its k-th draw after random.seed(s),
\* for one fixed seed s: a fixed stream, the same at every run.  One draw
\* stands for the calls made at one ghost slot or for one note of humanize.
SeededDraw(k) ==
    [gauss |-> IF k % 2 = 0 THEN -30 ELSE 30,
     randint |-> IF k % 3 = 0 THEN humanize_velocity ELSE -humanize_velocity,
     ghost |-> IF k % 3 = 0 THEN 0 ELSE IF k % 3 = 1 THEN 35 ELSE 55]

\* post_process drawing from the module-level generator that has handed out
\* pos draws so far: the ghost slots draw first, in loop order, then the
\* notes of humanize in list order.  draws is how many it took.
SeededPostProcess(ns, style_prompt, instr, pos) ==
    IF ns = <<>>
    THEN [result |-> [category |-> "none", quantized |-> <<>>, styled |-> <<>>,
                      humanized |-> <<>>, processed |-> ns],
          draws |-> 0]
    ELSE LET q == quantize_notes(ns, quantize_grid)
             cat == DetectStyleCategory(style_prompt)
             base == StyleTransform(q, cat)
             slots == IF AddsGhosts(cat, instr) THEN AscendingSeq(GhostSlots(base)) ELSE <<>>
             ghost_draws == [t \in {slots[j] : j \in 1..Len(slots)} |->
                                SeededDraw(pos + (CHOOSE j \in 1..Len(slots) : slots[j] = t) - 1).ghost]
             ghosts == Cardinality({j \in 1..Len(slots) : ghost_draws[slots[j]] # 0})
             humanize_draws == [i \in 1..(Len(base) + ghosts) |->
                                   SeededDraw(pos + Len(slots) + i - 1)]
         IN  [result |-> PostProcessFrom(q, cat, base, instr, ghost_draws, humanize_draws),
              draws |-> Len(slots) + Len(base) + ghosts]

\* "if not notes: return notes": an empty list is handed back as the same
\* object; otherwise the result is the list humanize built, sorted in place
PostProcessReturnsInput(ns) == ns = <<>>

---------------------------------------------------------------------------
(* magenta_continuator.py: the sequence assembler (FallbackSequence path) *)

\* beats * 60.0 / tempo, in units of 1/(1000 * tempo) second
BeatsToSeconds(beats, bpm) == beats * 60

\* 0.05 second, the length of a drum hit, in units of 1/(1000 * tempo) second
DrumHitSeconds(bpm) == 50 * bpm

FallbackSequence(bpm) == [tempo |-> bpm, notes |-> <<>>, total_time |-> 0]

\* max(a, b) of two times in seconds: in units of 1/(1000 * tempo) second the
\* later time is the smaller number when the tempo is negative
MaxSeconds(a, b, bpm) == IF bpm < 0 THEN Min(a, b) ELSE Max(a, b)

add_note(sq, pitch, start_time, end_time, velocity, is_drum, instr) ==
    [sq EXCEPT !.notes = Append(@, [pitch |-> pitch, start_time |-> start_time,
                                    end_time |-> end_time, velocity |-> velocity,
                                    is_drum |-> is_drum, instrument |-> instr]),
               !.total_time = MaxSeconds(@, end_time, sq.tempo)]

RECURSIVE DrumNotesToSequence(_, _, _)
\* _drum_notes_to_sequence after the first k notes of its loop
DrumNotesToSequence(ns, bpm, k) ==
    IF k = 0 THEN FallbackSequence(bpm)
    ELSE LET start_seconds == BeatsToSeconds(ns[k].time, bpm)
         IN  add_note(DrumNotesToSequence(ns, bpm, k - 1), ns[k].pitch, start_seconds,
                      start_seconds + DrumHitSeconds(bpm), ns[k].velocity, TRUE, 9)

RECURSIVE PianoNotesToSequence(_, _, _)
\* _piano_notes_to_sequence after the first k notes of its loop
PianoNotesToSequence(ns, bpm, k) ==
    IF k = 0 THEN FallbackSequence(bpm)
    ELSE LET start_seconds == BeatsToSeconds(ns[k].time, bpm)
             end_seconds == start_seconds + BeatsToSeconds(ns[k].duration, bpm)
         IN  add_note(PianoNotesToSequence(ns, bpm, k - 1), ns[k].pitch, start_seconds,
                      end_seconds, ns[k].velocity, FALSE, 0)

\* continue_drums / continue_piano with no Magenta model loaded
primer_only_to_sequence(ns, instr, bpm) ==
    IF instr = "drums" THEN DrumNotesToSequence(ns, bpm, Len(ns))
    ELSE PianoNotesToSequence(ns, bpm, Len(ns))

\* Python's None, where a sequence is expected
None == [none |-> TRUE]

\* what the loaded model's generate call does: it raises, it returns None, or
\* it returns the primer sequence with a continuation
ModelBehaviours == {"raises", "returns_none", "generates"}

\* the result of model.generate(primer_seq, ...) when it returns a sequence:
\* the primer's notes followed by extra generated notes from the primer's end
Generated(primer_seq, extra, instr) ==
    IF extra = 0 THEN primer_seq
    ELSE add_note(primer_seq, IF instr = "drums" THEN 42 ELSE 64, primer_seq.total_time,
                  primer_seq.total_time + DrumHitSeconds(primer_seq.tempo), 80,
                  instr = "drums", IF instr = "drums" THEN 9 ELSE 0)

\* fault variant of continue_notes: no sequence when the model is not loaded
continue_notes_or_none(ns, instr, bpm, mdl, extra) ==
    IF mdl = "none" THEN None
    ELSE LET primer_seq == primer_only_to_sequence(ns, instr, bpm)
         IN  IF mdl = "generates" THEN Generated(primer_seq, extra, instr) ELSE primer_seq

\* continue_drums / continue_piano: the primer-only sequence when the model
\* is not loaded; else the model's result, and the primer sequence when
\* anything in the try block raises (len(result.notes) raises for None)
continue_notes(ns, instr, bpm, mdl, extra) ==
    IF mdl = "none" THEN primer_only_to_sequence(ns, instr, bpm)
    ELSE LET primer_seq == primer_only_to_sequence(ns, instr, bpm)
         IN  IF mdl = "generates" THEN Generated(primer_seq, extra, instr) ELSE primer_seq

\* the exception the assembler raises, "" when it returns: the only one is
\* the division of _beats_to_seconds by a tempo of 0, done once per note
AssembleError(ns, bpm) == IF bpm = 0 /\ ns # <<>> THEN "ZeroDivisionError" ELSE ""

---------------------------------------------------------------------------
(* magenta_continuator.py: _write_midi_with_mido *)

ticks_per_beat == 480

\* int(seconds / 60 * tempo_bpm * 480), seconds in units of 1/(1000 * tempo)
SecondsToTick(seconds) == TruncDiv(seconds * ticks_per_beat, 60000)

\* mido.bpm2tempo: microseconds per quarter note, rounded
bpm2tempo(bpm) == RoundHalfEven(60000000, bpm)

\* One MIDI message.  tick (the event's absolute tick) and src (the index of
\* the note it comes from) are kept by the model beside mido's fields.
Message(type, note, velocity, channel, time, tick, src) ==
    [type |-> type, note |-> note, velocity |-> velocity, channel |-> channel,
     time |-> time, tick |-> tick, src |-> src, tempo |-> 0]

MetaMessage(type, mpq) ==
    [type |-> type, note |-> 0, velocity |-> 0, channel |-> 0,
     time |-> 0, tick |-> 0, src |-> 0, tempo |-> mpq]

\* the (tick, type, pitch, velocity, channel) tuples in the order appended
NoteEvents(sq) ==
    [e \in 1..(2 * Len(sq.notes)) |->
        LET k == (e + 1) \div 2
            n == sq.notes[k]
            start_tick == SecondsToTick(n.start_time)
            end_tick == SecondsToTick(n.end_time)
            channel == IF n.is_drum THEN 9 ELSE 0
        IN  IF e % 2 = 1
            THEN [tick |-> start_tick, type |-> "note_on", pitch |-> n.pitch,
                  velocity |-> n.velocity, channel |-> channel, src |-> k]
            ELSE [tick |-> end_tick, type |-> "note_off", pitch |-> n.pitch,
                  velocity |-> 0, channel |-> channel, src |-> k]]

\* events.sort(key=tick) is stable
InsertByTick(sorted, ev) ==
    LET k == Cardinality({i \in 1..Len(sorted) : sorted[i].tick <= ev.tick})
    IN  SubSeq(sorted, 1, k) \o <<ev>> \o SubSeq(sorted, k + 1, Len(sorted))

RECURSIVE SortPrefixByTick(_, _)
SortPrefixByTick(s, k) ==
    IF k = 0 THEN <<>> ELSE InsertByTick(SortPrefixByTick(s, k - 1), s[k])

SortByTick(s) == SortPrefixByTick(s, Len(s))

\* the loop turning absolute ticks into delta times
DeltaMessages(events) ==
    [i \in 1..Len(events) |->
        LET prev_tick == IF i = 1 THEN 0 ELSE events[i - 1].tick
            delta == Max(0, events[i].tick - prev_tick)
        IN  Message(events[i].type, events[i].pitch, events[i].velocity,
                    events[i].channel, delta, events[i].tick, events[i].src)]

\* fault variant of write_midi_with_mido: the tempo event is appended after
\* the note messages
write_midi_tempo_last(sq) ==
    DeltaMessages(SortByTick(NoteEvents(sq)))
        \o <<MetaMessage("set_tempo", bpm2tempo(sq.tempo))>>
        \o <<MetaMessage("end_of_track", 0)>>

\* the track as mid.save writes it: mido appends the end_of_track meta message
write_midi_with_mido(sq) ==
    <<MetaMessage("set_tempo", bpm2tempo(sq.tempo))>>
        \o DeltaMessages(SortByTick(NoteEvents(sq)))
        \o <<MetaMessage("end_of_track", 0)>>

\* mido accepts a data byte (note, velocity) within 0..127 and a set_tempo
\* value within 0..16777215, and raises ValueError otherwise
DataByte == 0..127

MaxMidiTempo == 16777215

\* the exception _write_midi_with_mido raises, "" when the file is written:
\* bpm2tempo divides by the tempo; MetaMessage and Message check their values
WriteError(sq) ==
    IF sq.tempo = 0 THEN "ZeroDivisionError"
    ELSE IF sq.tempo < 0 THEN "ValueError"
    ELSE IF bpm2tempo(sq.tempo) > MaxMidiTempo THEN "ValueError"
    ELSE IF \E k \in 1..Len(sq.notes) :
                sq.notes[k].pitch \notin DataByte \/ sq.notes[k].velocity \notin DataByte
    THEN "ValueError"
    ELSE ""

---------------------------------------------------------------------------
(* The generate request: post_process, continue_*, sequence_to_midi_file *)

\* style prompts of the requests, one for every style category
Styles ==
    { <<"1", "9", "2", "0", "s", " ", "j", "a", "z", "z">>,
      <<"F", "u", "n", "k", " ", "r", "o", "c", "k">>,
      <<"h", "a", "r", "d", " ", "r", "o", "c", "k">>,
      <<"d", "u", "b">>,
      <<"l", "o", "f", "i">> }

Instruments == {"drums", "piano"}

\* times and velocities of primer notes: _validate_*_notes leaves the time
\* >= 0 and the velocity within [velocity_min, velocity_max]
RequestTimes == {0, 498}

RequestVelocities == {40, 110}

\* _validate_drum_notes: drum, midi_note (DRUM_MIDI_MAP), time, velocity
DrumNotes ==
    {[id |-> 0, drum |-> d, pitch |-> IF d = "kick" THEN 36 ELSE 38, time |-> t,
      duration |-> 0, hasDuration |-> FALSE, velocity |-> v] :
        d \in {"kick", "snare"}, t \in RequestTimes, v \in RequestVelocities}

\* _validate_piano_notes: pitch, time, duration, velocity
PianoNotes ==
    {[id |-> 0, drum |-> "", pitch |-> 60, time |-> t,
      duration |-> 380, hasDuration |-> TRUE, velocity |-> v] :
        t \in RequestTimes, v \in RequestVelocities}

\* every list of at most MaxNotes notes of D, each note tagged with its index
NoteLists(D) ==
    UNION {{[i \in 1..n |-> [f[i] EXCEPT !.id = i]] : f \in [1..n -> D]} : n \in 0..MaxNotes}


Init ==
    /\ instrument \in Instruments
    /\ notes \in NoteLists(IF instrument = "drums" THEN DrumNotes ELSE PianoNotes)
    /\ style \in Styles
    /\ tempo = default_tempo
    /\ pc = "request"
    /\ category = "none"
    /\ quantized = <<>>
    /\ styled = <<>>
    /\ humanized = <<>>
    /\ processed = <<>>
    /\ seq = FallbackSequence(tempo)
    /\ track = <<>>
    /\ stage = "none"
    /\ arg = 0
    /\ out = <<>>
    /\ aliased = FALSE
    /\ err = ""
    /\ rng = 0
    /\ model = "none"

\* The generate endpoint: post_process(primer_notes, req.prompt, instrument),
\* then continue_drums / continue_piano (no model loaded: the primer-only
\* sequence), then sequence_to_midi_file (no note_seq: _write_midi_with_mido).
Generate ==
    /\ pc = "request"
    /\ pc' = "written"
    /\ \E r \in post_process(notes, style, instrument) :
           /\ category' = r.category
           /\ quantized' = r.quantized
           /\ styled' = r.styled
           /\ humanized' = r.humanized
           /\ processed' = r.processed
    /\ seq' = primer_only_to_sequence(processed', instrument, tempo)
    /\ track' = write_midi_with_mido(seq')
    /\ aliased' = PostProcessReturnsInput(notes)
    /\ UNCHANGED <<notes, style, instrument, tempo, stage, arg, out, err, rng, model>>

Next == Generate

Spec == Init /\ [][Next]_vars

---------------------------------------------------------------------------
(* Direct calls of the stage functions, with their parameters *)

\* times of the notes of a direct call: off the grid, on a rounding tie, before
\* 0, just below and just above a multiple of 4 beats
StageTimes == {-130, -5, 4, 125, 498, 755, 995}

\* the notes of a direct call: a snare hit as quiet as a ghost note (below
\* velocity_min), a kick, a piano note above velocity_max
StageNotes ==
    UNION {{[id |-> 0, drum |-> "snare", pitch |-> 38, time |-> t,
             duration |-> 0, hasDuration |-> FALSE, velocity |-> 35],
            [id |-> 0, drum |-> "kick", pitch |-> 36, time |-> t,
             duration |-> 0, hasDuration |-> FALSE, velocity |-> 100],
            [id |-> 0, drum |-> "", pitch |-> 60, time |-> t,
             duration |-> 130, hasDuration |-> TRUE, velocity |-> 125]} : t \in StageTimes}

\* grid values given to quantize_notes
Grids == {125, 250, 300, 1000}

\* ratio values given to apply_swing
Ratios == {492, 500, 508, 510, 660}

InitStage ==
    /\ notes \in NoteLists(StageNotes)
    /\ pc = "call"
    /\ stage = "none"
    /\ arg = 0
    /\ out = <<>>
    /\ aliased = FALSE
    /\ err = ""
    /\ rng = 0
    /\ model = "none"
    /\ style = <<>>
    /\ instrument = "drums"
    /\ tempo = default_tempo
    /\ category = "none"
    /\ quantized = <<>>
    /\ styled = <<>>
    /\ humanized = <<>>
    /\ processed = <<>>
    /\ seq = FallbackSequence(tempo)
    /\ track = <<>>

\* the function name, called with parameter a, returned result; same tells
\* whether it returned the very list it was given
Returned(name, a, result, same) ==
    /\ pc = "call"
    /\ pc' = "returned"
    /\ stage' = name
    /\ arg' = a
    /\ out' = result
    /\ aliased' = same
    /\ UNCHANGED <<notes, style, instrument, tempo, category, quantized, styled,
                   humanized, processed, seq, track, err, rng, model>>

CallQuantize == \E grid \in Grids : Returned("quantize_notes", grid, quantize_notes(notes, grid), FALSE)

CallSwing ==
    \E ratio \in Ratios :
        Returned("apply_swing", ratio, apply_swing(notes, ratio), SwingReturnsInput(ratio))

CallRock == Returned("apply_rock_emphasis", 0, apply_rock_emphasis(notes), FALSE)

CallReggae == Returned("apply_reggae_offbeat", 0, apply_reggae_offbeat(notes), FALSE)

CallFunk ==
    \E draws \in [GhostSlots(notes) -> GhostChoices] :
        Returned("add_funk_ghost_notes", 0, add_funk_ghost_notes(notes, draws), FALSE)

CallHumanize ==
    \E draws \in [1..Len(notes) -> HumanizeDraws] :
        Returned("humanize", 0, humanize(notes, draws, humanize_timing), FALSE)

NextStage ==
    CallQuantize \/ CallSwing \/ CallRock \/ CallReggae \/ CallFunk \/ CallHumanize

SpecStage == InitStage /\ [][NextStage]_vars

---------------------------------------------------------------------------
(* Direct calls of the style classifier *)

Vocabulary ==
    { <<"J", "a", "z", "z">>,
      <<"f", "u", "n", "k">>,
      <<"R", "O", "C", "K">>,
      <<"D", "u", "b", "s", "t", "e", "p">>,
      <<"A", "l", "a", "s", "k", "a">>,
      <<"h", "a", "r", "d">>,
      <<"b", "i", "g">>,
      <<"b", "a", "n", "d">>,
      <<"l", "o", "f", "i">>,
      <<"R", "&", "B">>,
      <<"c", "l", "a", "s", "s", "i", "c", "a", "l">>,
      <<"p", "i", "a", "n", "o">> }

RECURSIVE JoinWords(_)
\* the words of ws with one space between them
JoinWords(ws) ==
    IF Len(ws) = 0 THEN <<>>
    ELSE IF Len(ws) = 1 THEN ws[1]
    ELSE ws[1] \o <<" ">> \o JoinWords(Tail(ws))

\* every text of at most MaxWords words of the vocabulary
Texts == UNION {{JoinWords(ws) : ws \in [1..n -> Vocabulary]} : n \in 0..MaxWords}

InitClassify ==
    /\ style \in Texts
    /\ pc = "call"
    /\ category = "none"
    /\ notes = <<>>
    /\ instrument = "drums"
    /\ tempo = default_tempo
    /\ quantized = <<>>
    /\ styled = <<>>
    /\ humanized = <<>>
    /\ processed = <<>>
    /\ seq = FallbackSequence(tempo)
    /\ track = <<>>
    /\ stage = "none"
    /\ arg = 0
    /\ out = <<>>
    /\ aliased = FALSE
    /\ err = ""
    /\ rng = 0
    /\ model = "none"

Classify ==
    /\ pc = "call"
    /\ pc' = "returned"
    /\ stage' = "_detect_style_category"
    /\ category' = DetectStyleCategory(style)
    /\ UNCHANGED <<notes, style, instrument, tempo, quantized, styled, humanized,
                   processed, seq, track, arg, out, aliased, err, rng, model>>

NextClassify == Classify

SpecClassify == InitClassify /\ [][NextClassify]_vars

---------------------------------------------------------------------------
(* Direct calls of the assembler and of the MIDI writer *)

\* tempos handed to the assembler: the request model of main.py keeps them
\* within 40..300, the functions themselves take any integer
Tempos == {-60, 0, 70, 120, 1001}

\* times of the notes handed to the assembler, in any order, one before 0
AssemblerTimes == {-20, 0, 500}

\* drum notes handed to the assembler; the last one has a velocity no MIDI
\* data byte can hold
AssemblerDrumNotes ==
    {[id |-> 0, drum |-> "kick", pitch |-> 36, time |-> t,
      duration |-> 0, hasDuration |-> FALSE, velocity |-> 80] : t \in AssemblerTimes}
    \cup {[id |-> 0, drum |-> "snare", pitch |-> 38, time |-> 0,
           duration |-> 0, hasDuration |-> FALSE, velocity |-> 200]}

\* piano notes handed to the assembler: one pitch, with and without length;
\* the last two have a pitch and a velocity no MIDI data byte can hold
AssemblerPianoNotes ==
    {[id |-> 0, drum |-> "", pitch |-> 60, time |-> t,
      duration |-> d, hasDuration |-> TRUE, velocity |-> 80] :
        t \in AssemblerTimes, d \in {0, 500}}
    \cup {[id |-> 0, drum |-> "", pitch |-> 130, time |-> 0,
           duration |-> 500, hasDuration |-> TRUE, velocity |-> 80],
          [id |-> 0, drum |-> "", pitch |-> 60, time |-> 0,
           duration |-> 500, hasDuration |-> TRUE, velocity |-> 200]}

InitEncode ==
    /\ instrument \in Instruments
    /\ notes \in NoteLists(IF instrument = "drums" THEN AssemblerDrumNotes
                           ELSE AssemblerPianoNotes)
    /\ tempo \in Tempos
    /\ pc = "call"
    /\ style = <<>>
    /\ category = "none"
    /\ quantized = <<>>
    /\ styled = <<>>
    /\ humanized = <<>>
    /\ processed = <<>>
    /\ seq = FallbackSequence(default_tempo)
    /\ track = <<>>
    /\ stage = "none"
    /\ arg = 0
    /\ out = <<>>
    /\ aliased = FALSE
    /\ err = ""
    /\ rng = 0
    /\ model = "none"

\* primer_only_to_sequence(notes, instrument, tempo)
Assemble ==
    /\ pc = "call"
    /\ stage' = "primer_only_to_sequence"
    /\ err' = AssembleError(notes, tempo)
    /\ IF err' = ""
       THEN /\ pc' = "assembled"
            /\ seq' = primer_only_to_sequence(notes, instrument, tempo)
       ELSE /\ pc' = "failed"
            /\ UNCHANGED seq
    /\ UNCHANGED <<notes, style, instrument, tempo, category, quantized, styled,
                   humanized, processed, track, arg, out, aliased, rng, model>>

\* sequence_to_midi_file(sequence, output_path) without note_seq
WriteMidi ==
    /\ pc = "assembled"
    /\ stage' = "sequence_to_midi_file"
    /\ err' = WriteError(seq)
    /\ IF err' = ""
       THEN /\ pc' = "written"
            /\ track' = write_midi_with_mido(seq)
       ELSE /\ pc' = "failed"
            /\ UNCHANGED track
    /\ UNCHANGED <<notes, style, instrument, tempo, category, quantized, styled,
                   humanized, processed, seq, arg, out, aliased, rng, model>>

NextEncode == Assemble \/ WriteMidi

SpecEncode == InitEncode /\ [][NextEncode]_vars

---------------------------------------------------------------------------
(* Requests sharing the random module's generator *)

\* The generator was seeded once (rng = 0); the request under watch has not
\* run yet.
InitRandom ==
    /\ instrument \in Instruments
    /\ notes \in NoteLists(IF instrument = "drums" THEN DrumNotes ELSE PianoNotes)
    /\ style \in Styles
    /\ tempo = default_tempo
    /\ pc = "request"
    /\ category = "none"
    /\ quantized = <<>>
    /\ styled = <<>>
    /\ humanized = <<>>
    /\ processed = <<>>
    /\ seq = FallbackSequence(tempo)
    /\ track = <<>>
    /\ stage = "none"
    /\ arg = 0
    /\ out = <<>>
    /\ aliased = FALSE
    /\ err = ""
    /\ rng = 0
    /\ model = "none"

\* another request's post_process runs first: humanize draws once for each
\* of its n notes from the same module-level generator
OtherRequest ==
    /\ pc = "request"
    /\ \E n \in 1..MaxNotes :
           /\ rng + n <= MaxOtherDraws
           /\ rng' = rng + n
    /\ UNCHANGED <<notes, style, instrument, tempo, pc, category, quantized, styled,
                   humanized, processed, seq, track, stage, arg, out, aliased, err, model>>

\* the request under watch: post_process(notes, style, instrument)
SeededRequest ==
    /\ pc = "request"
    /\ pc' = "written"
    /\ stage' = "post_process"
    /\ LET r == SeededPostProcess(notes, style, instrument, rng)
       IN  /\ category' = r.result.category
           /\ quantized' = r.result.quantized
           /\ styled' = r.result.styled
           /\ humanized' = r.result.humanized
           /\ processed' = r.result.processed
           /\ rng' = rng + r.draws
    /\ aliased' = PostProcessReturnsInput(notes)
    /\ UNCHANGED <<notes, style, instrument, tempo, seq, track, arg, out, err, model>>

NextRandom == OtherRequest \/ SeededRequest

SpecRandom == InitRandom /\ [][NextRandom]_vars

---------------------------------------------------------------------------
(* The continuation step of the generate endpoint *)

\* The primer has been post-processed; the model was or was not loaded at
\* startup (lifespan: load_all_models).
InitContinue ==
    /\ instrument \in Instruments
    /\ notes \in NoteLists(IF instrument = "drums" THEN DrumNotes ELSE PianoNotes)
    /\ model \in {"none"} \cup ModelBehaviours
    /\ tempo = default_tempo
    /\ pc = "primer"
    /\ style = <<>>
    /\ category = "none"
    /\ quantized = <<>>
    /\ styled = <<>>
    /\ humanized = <<>>
    /\ processed = notes
    /\ seq = FallbackSequence(tempo)
    /\ track = <<>>
    /\ stage = "none"
    /\ arg = 0
    /\ out = <<>>
    /\ aliased = FALSE
    /\ err = ""
    /\ rng = 0

\* generate, step 3: continue_drums / continue_piano, then "if sequence is
\* None: raise HTTPException(500, 'Magenta generation returned no output')"
Continue ==
    /\ pc = "primer"
    /\ stage' = IF instrument = "drums" THEN "continue_drums" ELSE "continue_piano"
    /\ \E extra \in 0..1 : seq' = continue_notes(processed, instrument, tempo, model, extra)
    /\ IF seq' = None
       THEN pc' = "failed" /\ err' = "HTTPException"
       ELSE pc' = "continued" /\ err' = ""
    /\ UNCHANGED <<notes, style, instrument, tempo, category, quantized, styled,
                   humanized, processed, track, arg, out, aliased, rng, model>>

NextContinue == Continue

SpecContinue == InitContinue /\ [][NextContinue]_vars

---------------------------------------------------------------------------
(* Properties *)

Indices(s) == 1..Len(s)

VelocityInRange(ns) ==
    \A i \in Indices(ns) : velocity_min <= ns[i].velocity /\ ns[i].velocity <= velocity_max

\* the place in list s of the note tagged id
PlaceOf(s, id) == CHOOSE k \in Indices(s) : s[k].id = id

\* the notes of styled that add_funk_ghost_notes made
IsGhost(n) == n.id > Len(notes)

Written == pc = "written" /\ notes # <<>>

\* C1: the list post_process returns for a non-empty input is sorted by
\* ascending time, holds the notes of the humanized list, and keeps notes of
\* equal time in the order they had before the final sort.
C1_SortedAndStable ==
    Written =>
        /\ Len(processed) = Len(humanized)
        /\ \A i \in Indices(processed) : \E k \in Indices(humanized) : humanized[k] = processed[i]
        /\ \A i, j \in Indices(processed) :
               i < j =>
                   /\ processed[i].time <= processed[j].time
                   /\ processed[i].time = processed[j].time =>
                          PlaceOf(humanized, processed[i].id) < PlaceOf(humanized, processed[j].id)

\* C1 witness: the sort moved a note, and two notes of the result tie
C1_Witness ==
    /\ Written
    /\ \E i, j \in Indices(humanized) : i < j /\ humanized[i].time > humanized[j].time
    /\ \E i, j \in Indices(processed) : i < j /\ processed[i].time = processed[j].time

\* C2: post_process returns as many notes as it was given, except for Funk on
\* drums, where it returns at least as many; every input note is in the result.
C2_NoteCount ==
    pc = "written" =>
        /\ IF category = "funk" /\ instrument = "drums"
           THEN Len(processed) >= Len(notes)
           ELSE Len(processed) = Len(notes)
        /\ \A i \in Indices(notes) : \E k \in Indices(processed) : processed[k].id = notes[i].id

\* C2 witness: a Funk drums request that came back with more notes
C2_Witness ==
    /\ Written
    /\ category = "funk"
    /\ instrument = "drums"
    /\ Len(processed) > Len(notes)

C4_HumanizedVelocityInRange ==
    /\ (pc = "returned" /\ stage = "humanize") =>
           /\ Len(out) = Len(notes)
           /\ \A i \in Indices(out) : out[i].velocity \in velocity_min..velocity_max
    /\ Written =>
           /\ \A i \in Indices(humanized) : humanized[i].velocity \in velocity_min..velocity_max
           /\ \A i \in Indices(processed) : processed[i].velocity \in velocity_min..velocity_max

\* C4 witness: humanize was given a note below velocity_min and a note above
\* velocity_max, and returned them at the bounds
C4_Witness ==
    /\ pc = "returned"
    /\ stage = "humanize"
    /\ \E i \in Indices(out) : notes[i].velocity < velocity_min /\ out[i].velocity = velocity_min
    /\ \E i \in Indices(out) : notes[i].velocity > velocity_max /\ out[i].velocity = velocity_max

\* C5: every note humanize returns has time >= 0, whatever the time it was
\* given; the time moved by at most timing_amount before the floor at 0.
C5_HumanizedTimeNonNegative ==
    (pc = "returned" /\ stage = "humanize") =>
        /\ Len(out) = Len(notes)
        /\ \A i \in Indices(out) :
               /\ out[i].time >= 0
               /\ out[i].time >= Max(0, notes[i].time - humanize_timing)
               /\ out[i].time <= Max(0, notes[i].time + humanize_timing)

\* C5 witness: a note given before time 0 came back at 0, another moved
C5_Witness ==
    /\ pc = "returned"
    /\ stage = "humanize"
    /\ \E i \in Indices(out) : notes[i].time < 0 /\ out[i].time = 0
    /\ \E i \in Indices(out) : out[i].time > 0 /\ out[i].time # notes[i].time

\* C6: for every grid g > 0 the time quantize_notes gives a note is an integer
\* multiple of g and at most g / 2 from the note's time.
C6_QuantizedOnGrid ==
    (pc = "returned" /\ stage = "quantize_notes") =>
        /\ arg > 0
        /\ Len(out) = Len(notes)
        /\ \A i \in Indices(out) :
               /\ out[i].time % arg = 0
               /\ 2 * Abs(out[i].time - notes[i].time) <= arg

\* C6 witness: a note half a grid step from both neighbours, and one below 0
C6_Witness ==
    /\ pc = "returned"
    /\ stage = "quantize_notes"
    /\ \E i \in Indices(out) : 2 * Abs(out[i].time - notes[i].time) = arg
    /\ \E i \in Indices(out) : notes[i].time < 0 /\ out[i].time # notes[i].time

\* C7: apply_swing with a ratio within 0.01 of 0.5 returns its input unchanged.
C7_StraightRatioIsIdentity ==
    (pc = "returned" /\ stage = "apply_swing" /\ Abs(arg - 500) < 10) => out = notes

\* C7 witness: a ratio near but not at 0.5, and a note on the upbeat eighth
\* that a swing ratio would move
C7_Witness ==
    /\ pc = "returned"
    /\ stage = "apply_swing"
    /\ arg # 500
    /\ Abs(arg - 500) < 10
    /\ \E i \in Indices(notes) : Abs((notes[i].time % 1000) - 500) < 10
    /\ out = notes

HasKeyword(text, keywords) == \E keyword \in keywords : Contains(Lower(text), keyword)

\* C8: the classifier returns one of the five categories for every text: the
\* first of Swing, Funk, Rock, Reggae with a keyword in the lower-cased text,
\* else Neutral.
C8_ClassifierPriority ==
    (pc = "returned" /\ stage = "_detect_style_category") =>
        /\ category \in {"swing", "funk", "rock", "reggae", "neutral"}
        /\ category = "swing" <=> HasKeyword(style, SWING_STYLES)
        /\ category = "funk" <=>
               (~HasKeyword(style, SWING_STYLES) /\ HasKeyword(style, FUNK_STYLES))
        /\ category = "rock" <=>
               /\ ~HasKeyword(style, SWING_STYLES)
               /\ ~HasKeyword(style, FUNK_STYLES)
               /\ HasKeyword(style, ROCK_STYLES)
        /\ category = "reggae" <=>
               /\ ~HasKeyword(style, SWING_STYLES)
               /\ ~HasKeyword(style, FUNK_STYLES)
               /\ ~HasKeyword(style, ROCK_STYLES)
               /\ HasKeyword(style, REGGAE_STYLES)

\* C8 witness: a text with a funk and a rock keyword, one in upper case
C8_Witness ==
    /\ pc = "returned"
    /\ stage = "_detect_style_category"
    /\ HasKeyword(style, FUNK_STYLES)
    /\ HasKeyword(style, ROCK_STYLES)
    /\ style # Lower(style)
    /\ category = "funk"

\* C9: an empty list comes back empty from every stage and from post_process
\* (which runs no stage), is assembled to a sequence with no notes and
\* total_time 0, and is written as a track of the tempo event and the
\* end-of-track event alone.
C9_EmptyPassesThrough ==
    notes = <<>> =>
        /\ quantize_notes(notes, quantize_grid) = <<>>
        /\ apply_swing(notes, swing_ratio) = <<>>
        /\ apply_rock_emphasis(notes) = <<>>
        /\ apply_reggae_offbeat(notes) = <<>>
        /\ add_funk_ghost_notes(notes, [t \in GhostSlots(notes) |-> 35]) = <<>>
        /\ humanize(notes, <<>>, humanize_timing) = <<>>
        /\ pc = "written" =>
               /\ processed = <<>>
               /\ category = "none"
               /\ seq.notes = <<>>
               /\ seq.total_time = 0
               /\ Len(track) = 2
               /\ track[1].type = "set_tempo"
               /\ track[1].time = 0
               /\ track[2].type = "end_of_track"

\* C9 witness: the request with no notes was written
C9_Witness ==
    /\ notes = <<>>
    /\ pc = "written"
    /\ Len(track) = 2

\* the ticks of a length the assembler gives a note: 0.05 second for a drum
\* hit, the note's duration in beats for a piano note
DurationTicks(n) ==
    IF instrument = "drums"
    THEN RoundHalfEven(50 * tempo * ticks_per_beat, 60000)
    ELSE RoundHalfEven(n.duration * ticks_per_beat, 1000)

\* C10: for the note starting at beat b the track holds its Note-On at
\* absolute tick round(b * 480) and its Note-Off at that tick plus the note's
\* duration in ticks.
C10_TickIsRounded ==
    pc = "written" =>
        \A k \in Indices(processed) :
            LET start_tick == RoundHalfEven(processed[k].time * ticks_per_beat, 1000)
            IN  /\ \E i \in Indices(track) :
                       /\ track[i].type = "note_on"
                       /\ track[i].src = k
                       /\ track[i].tick = start_tick
                /\ \E i \in Indices(track) :
                       /\ track[i].type = "note_off"
                       /\ track[i].src = k
                       /\ track[i].tick = start_tick + DurationTicks(processed[k])

\* the places of the note messages in the written track
NoteMessages == {i \in Indices(track) : track[i].type \in {"note_on", "note_off"}}

\* the place in the track of the message of the given type that note k made
MessageOf(type, k) == CHOOSE i \in Indices(track) : track[i].type = type /\ track[i].src = k

RECURSIVE SumOfDeltas(_)
\* the delta times of the track's first i messages, added up
SumOfDeltas(i) == IF i = 0 THEN 0 ELSE SumOfDeltas(i - 1) + track[i].time

\* C11: every delta time written is >= 0, and the delta times up to and
\* including a note event add up to the event's absolute tick (a negative
\* tick counting as tick 0).
C11_DeltasRebuildTicks ==
    pc = "written" =>
        \A i \in NoteMessages :
            /\ track[i].time >= 0
            /\ SumOfDeltas(i) = Max(0, track[i].tick)

\* C12: for notes listed in any order the note events are written in
\* non-decreasing tick order, every note's Note-On before its own Note-Off,
\* and where a note ends at the tick at which a later note of the same pitch
\* starts, its Note-Off before that note's Note-On.
C12_PairingOrder ==
    (pc = "written" /\ tempo > 0) =>
        /\ \A i, j \in NoteMessages : i < j => track[i].tick <= track[j].tick
        /\ \A k \in Indices(seq.notes) : MessageOf("note_on", k) < MessageOf("note_off", k)
        /\ \A a, b \in Indices(seq.notes) :
               (/\ seq.notes[a].pitch = seq.notes[b].pitch
                /\ track[MessageOf("note_on", a)].tick < track[MessageOf("note_on", b)].tick
                /\ track[MessageOf("note_off", a)].tick = track[MessageOf("note_on", b)].tick)
                   => MessageOf("note_off", a) < MessageOf("note_on", b)

\* C13: the written track starts with its one Set-Tempo event, at time 0 and
\* holding 60,000,000 / tempo microseconds per quarter note to the nearest
\* integer, then holds one Note-On and one Note-Off of every note, and ends
\* with its one End-of-Track event.
C13_TrackLayout ==
    (pc = "written" /\ stage = "sequence_to_midi_file") =>
        /\ Len(track) = 2 * Len(seq.notes) + 2
        /\ track[1].type = "set_tempo"
        /\ track[1].time = 0
        /\ 2 * Abs(track[1].tempo * tempo - 60000000) <= tempo
        /\ track[Len(track)].type = "end_of_track"
        /\ NoteMessages = 2..(Len(track) - 1)
        /\ \A k \in Indices(seq.notes) :
               /\ Cardinality({i \in NoteMessages :
                                  track[i].type = "note_on" /\ track[i].src = k}) = 1
               /\ Cardinality({i \in NoteMessages :
                                  track[i].type = "note_off" /\ track[i].src = k}) = 1

\* C13 witness: two notes written at a tempo that does not divide 60,000,000
C13_Witness ==
    /\ pc = "written"
    /\ stage = "sequence_to_midi_file"
    /\ Len(seq.notes) = 2
    /\ 60000000 % tempo # 0
    /\ Len(track) = 6

\* C14: assembling fails with InvalidTempo, and yields no sequence, for every
\* tempo outside 1..1000, and succeeds for every tempo inside.
C14_InvalidTempo ==
    stage = "primer_only_to_sequence" =>
        IF tempo \in 1..1000
        THEN pc = "assembled" /\ err = ""
        ELSE pc = "failed" /\ err = "InvalidTempo"

\* C15: the writer does not fail over a malformed note: with a tempo it can
\* encode, every note, also one with a negative start tick or a pitch or
\* velocity outside 0..127, is written as a Note-On/Note-Off pair with its
\* pitch and velocity held within 0..127.
C15_MalformedNotesClamped ==
    (stage = "sequence_to_midi_file" /\ tempo > 0 /\ bpm2tempo(tempo) <= MaxMidiTempo) =>
        /\ pc = "written"
        /\ err = ""
        /\ \A i \in NoteMessages : track[i].note \in DataByte /\ track[i].velocity \in DataByte
        /\ \A k \in Indices(seq.notes) :
               /\ \E i \in NoteMessages : track[i].type = "note_on" /\ track[i].src = k
               /\ \E i \in NoteMessages : track[i].type = "note_off" /\ track[i].src = k

\* C16: the assembled sequence holds its notes in ascending start time, notes
\* of equal start time in the order they were handed over, whatever the
\* order of the list handed to the assembler.
C16_SequenceSorted ==
    (pc = "assembled" /\ tempo > 0) =>
        /\ Len(seq.notes) = Len(notes)
        /\ \A i, j \in Indices(seq.notes) :
               i < j => seq.notes[i].start_time <= seq.notes[j].start_time

\* C17: with a fixed seed and a fixed input, post_process returns the same
\* list whether the request runs alone or after other requests' calls: its
\* draws do not depend on what other requests drew.
C17_DrawsBelongToCall ==
    (pc = "written" /\ stage = "post_process") =>
        processed = SeededPostProcess(notes, style, instrument, 0).result.processed

\* C18: every stage returns a new list, distinct from the list it was given,
\* for every input and parameter value (the caller's list and its notes stay
\* as they were).
C18_ReturnsNewList ==
    (pc = "returned" /\ stage \in {"quantize_notes", "apply_swing", "apply_rock_emphasis",
                                   "add_funk_ghost_notes", "apply_reggae_offbeat", "humanize"}) =>
        ~aliased

\* the start of the beat a time lies in: floor(time), in thousandths
FloorBeat(t) == (t \div 1000) * 1000

NearBarPosition(t, b) ==
    LET d == Abs((t % 4000) - b)
    IN  d < 10 \/ 4000 - d < 10

\* C20: apply_rock_emphasis sets the velocity of a note within 0.01 of bar
\* position 0 or 2 (times just below a multiple of 4 included) to
\* min(velocity_max, velocity * 1.15 truncated), of a note within 0.01 of 1
\* or 3 to max(velocity_min, velocity * 0.95 truncated), and changes no other
\* velocity and no time.
C20_RockEmphasis ==
    (pc = "returned" /\ stage = "apply_rock_emphasis") =>
        /\ Len(out) = Len(notes)
        /\ \A i \in Indices(out) :
               LET t == notes[i].time
                   v == notes[i].velocity
               IN  /\ out[i] = [notes[i] EXCEPT !.velocity = out[i].velocity]
                   /\ IF NearBarPosition(t, 0) \/ NearBarPosition(t, 2000)
                      THEN out[i].velocity = Min(velocity_max, (v * 115) \div 100)
                      ELSE IF NearBarPosition(t, 1000) \/ NearBarPosition(t, 3000)
                      THEN out[i].velocity = Max(velocity_min, (v * 95) \div 100)
                      ELSE out[i].velocity = v

\* the distance of time t from the nearest position b + whole beats
BeatDistance(t, b) ==
    LET d == Abs((t % 1000) - b)
    IN  Min(d, 1000 - d)

\* C21: apply_reggae_offbeat multiplies by 1.2, held at velocity_max, the
\* velocity of a note within 0.1 beat of a half-beat offbeat, and by 0.85,
\* held at velocity_min, the velocity of a note within 0.1 beat of a
\* downbeat, be it just after the downbeat or just before the next one.
C21_ReggaeOffbeat ==
    (pc = "returned" /\ stage = "apply_reggae_offbeat") =>
        /\ Len(out) = Len(notes)
        /\ \A i \in Indices(out) :
               LET t == notes[i].time
                   v == notes[i].velocity
               IN  IF BeatDistance(t, 500) < 100
                   THEN out[i].velocity = Min(velocity_max, (v * 120) \div 100)
                   ELSE IF BeatDistance(t, 0) < 100
                   THEN out[i].velocity = Max(velocity_min, (v * 85) \div 100)
                   ELSE out[i].velocity = v

\* whether list output is the list input followed by well-formed ghost notes:
\* snares of pitch 38 and velocity 35..55, each on its own sixteenth slot
\* k * 0.25 with k mod 4 in {1, 3}, from 0 up to the latest time of input,
\* none within 0.01 beat of a snare hit of input
InputThenGhosts(input, output) ==
    /\ Len(output) >= Len(input)
    /\ SubSeq(output, 1, Len(input)) = input
    /\ \A i \in (Len(input) + 1)..Len(output) :
           /\ output[i].drum = "snare"
           /\ output[i].pitch = 38
           /\ output[i].velocity \in 35..55
           /\ output[i].time % 250 = 0
           /\ (output[i].time \div 250) % 4 \in {1, 3}
           /\ output[i].time >= 0
           /\ \E j \in Indices(input) : output[i].time <= input[j].time
           /\ \A j \in Indices(input) :
                  input[j].drum = "snare" => Abs(output[i].time - input[j].time) >= 10
           /\ \A j \in (Len(input) + 1)..Len(output) :
                  j # i => output[j].time # output[i].time

\* C22: add_funk_ghost_notes returns its input notes, in their order, followed
\* by ghost notes: snares (pitch 38) of velocity 35..55, at most one per
\* sixteenth slot k * 0.25 with k mod 4 in {1, 3}, at times from 0 to the
\* latest input time, none within 0.01 beat of an input snare hit; and
\* post_process adds ghosts only for Funk on drums.
C22_GhostNotes ==
    /\ (pc = "returned" /\ stage = "add_funk_ghost_notes") => InputThenGhosts(notes, out)
    /\ Written =>
           IF category = "funk" /\ instrument = "drums"
           THEN InputThenGhosts(SubSeq(styled, 1, Len(notes)), styled)
           ELSE Len(styled) = Len(notes)

\* C22 witness: ghosts were added on slots 0.25 and 0.75, with both
\* velocities, behind an input holding a snare hit
C22_Witness ==
    /\ pc = "returned"
    /\ stage = "add_funk_ghost_notes"
    /\ \E i \in Indices(notes) : notes[i].drum = "snare"
    /\ \E i, j \in (Len(notes) + 1)..Len(out) :
           /\ out[i].time = 250
           /\ out[j].time = 750
           /\ out[i].velocity # out[j].velocity

\* C23: the total_time of an assembled sequence is the latest end time of
\* its notes, and 0 when it has no notes.
C23_TotalTimeIsLatestEnd ==
    (pc \in {"assembled", "written"} /\ tempo > 0) =>
        IF seq.notes = <<>>
        THEN seq.total_time = 0
        ELSE /\ \E k \in Indices(seq.notes) : seq.total_time = seq.notes[k].end_time
             /\ \A k \in Indices(seq.notes) : seq.total_time >= seq.notes[k].end_time

===========================================================================
